---- MODULE Spec2Model ----
(***************************************************************************)
(* ChattyAI backend (src/backend/main.py): the FastAPI request handlers    *)
(* chat, get_chats and get_chat_messages, the module-level client handles  *)
(* they read, the document store they write and the event loop that runs   *)
(* them.                                                                   *)
(*                                                                         *)
(* Text is a sequence of one-token strings.  An Optional value is None     *)
(* (the empty tuple) or Some(v) (the one-element tuple <<v>>).             *)
(***************************************************************************)
EXTENDS Integers, Sequences, FiniteSets, TLC

\* ------------------------------------------------------------------ bounds
NumReqs == 2
MaxClock == 1
MaxPromptLen == 52
MaxRespLen == 102
MaxHist == 2
MaxShotLen == 5

\* ------------------------------------------------------- program constants
TitleLimit == 50
LastMessageLimit == 100
ServerError == 500
Success == 200

Reqs == 1..NumReqs
NoReq == 0

None == <<>>
Some(v) == <<v>>
IsNone(o) == o = <<>>
Get(o) == o[1]

\* Python truthiness of an Optional[str]: None and "" are falsy.
Truthy(o) == ~IsNone(o) /\ Get(o) # <<>>

Digit(d) == CASE d = 0 -> "0" [] d = 1 -> "1" [] d = 2 -> "2" [] d = 3 -> "3"
              [] d = 4 -> "4" [] d = 5 -> "5" [] d = 6 -> "6" [] d = 7 -> "7"
              [] d = 8 -> "8" [] OTHER -> "9"

RECURSIVE Decimal(_)
\* str(n) of a non-negative int.
Decimal(n) == IF n < 10 THEN <<Digit(n)>>
              ELSE Decimal(n \div 10) \o <<Digit(n % 10)>>

\* s occurs in t as a contiguous run of tokens.
Includes(t, s) ==
    \E i \in 0..(Len(t) - Len(s)) : SubSeq(t, i + 1, i + Len(s)) = s

\* ----------------------------------------------------------- chat_id (l.97)
\* f"chat_{int(time.time())}"
NewChatId(t) == <<"chat_">> \o Decimal(t)

\* request.chat_id if request.chat_id else f"chat_{int(time.time())}"
ChatIdFor(cid, t) == IF Truthy(cid) THEN Get(cid) ELSE NewChatId(t)

\* ------------------------------------------------------ history (l.99-103)
Absent == "<absent>"

\* "user" if msg.get("role") == "user" else "model"
MapRole(role) == IF role = "user" THEN "user" ELSE "model"

\* msg.get("content", "")
ContentOf(msg) == IF msg.content = Absent THEN "" ELSE msg.content

BuildHistoryReversed(h) ==
    [i \in 1..Len(h) |->
        [role |-> MapRole(h[Len(h) + 1 - i].role),
         parts |-> <<ContentOf(h[Len(h) + 1 - i])>>]]

BuildHistory(h) ==
    [i \in 1..Len(h) |-> [role |-> MapRole(h[i].role), parts |-> <<ContentOf(h[i])>>]]

\* --------------------------------------------------- truncation (l.154-155)
Ellipsis == <<".", ".", ".">>

TruncateAtOrOver(s, n) == IF Len(s) >= n THEN SubSeq(s, 1, n) \o Ellipsis ELSE s

\* s[:n] + "..." if len(s) > n else s
Truncate(s, n) == IF Len(s) > n THEN SubSeq(s, 1, n) \o Ellipsis ELSE s

Title(prompt) == Truncate(prompt, TitleLimit)
LastMessage(text) == Truncate(text, LastMessageLimit)

\* ------------------------------------------------- screenshot (l.111, l.114)
\* The payload characters: "Q" is a character of the base64 alphabet (value 16),
\* "=" the pad, "," the data-URI separator, "!" any other character.
ShotChars == {"Q", "=", ",", "!"}

B64Val(c) == CASE c = "A" -> 0 [] c = "Q" -> 16 [] c = "/" -> 63 [] OTHER -> 64

RECURSIVE IndexOf(_, _, _)
\* The first index >= i of character c in s, or 0.
IndexOf(s, c, i) == IF i > Len(s) THEN 0
                    ELSE IF s[i] = c THEN i ELSE IndexOf(s, c, i + 1)

\* s.split(",")[1] if "," in s else s
SplitPayload(s) ==
    LET a == IndexOf(s, ",", 1) IN
    IF a = 0 THEN s
    ELSE LET b == IndexOf(s, ",", a + 1) IN
         SubSeq(s, a + 1, IF b = 0 THEN Len(s) ELSE b - 1)

IncorrectPadding == <<"Incorrect padding">>
InvalidCount(n) ==
    <<"Invalid base64-encoded string: number of data characters (">> \o Decimal(n)
        \o <<") cannot be 1 more than a multiple of 4">>

RECURSIVE A2B(_, _, _, _, _, _)
\* binascii.a2b_base64 as base64.b64decode calls it (validate=False): characters
\* outside the alphabet are skipped, a completed pad ends the input.
A2B(s, i, quad, left, pads, out) ==
    IF i > Len(s)
    THEN IF quad = 0 THEN [ok |-> TRUE, data |-> out, err |-> <<>>]
         ELSE IF quad = 1
              THEN [ok |-> FALSE, data |-> <<>>,
                    err |-> InvalidCount((Len(out) \div 3) * 4 + 1)]
              ELSE [ok |-> FALSE, data |-> <<>>, err |-> IncorrectPadding]
    ELSE IF s[i] = "="
         THEN IF quad >= 2 /\ quad + pads + 1 >= 4
              THEN [ok |-> TRUE, data |-> out, err |-> <<>>]
              ELSE A2B(s, i + 1, quad, left, IF quad >= 2 THEN pads + 1 ELSE pads, out)
         ELSE LET v == B64Val(s[i]) IN
              IF v >= 64 THEN A2B(s, i + 1, quad, left, pads, out)
              ELSE CASE quad = 0 -> A2B(s, i + 1, 1, v, 0, out)
                     [] quad = 1 ->
                          A2B(s, i + 1, 2, v % 16, 0, Append(out, left * 4 + v \div 16))
                     [] quad = 2 ->
                          A2B(s, i + 1, 3, v % 4, 0, Append(out, left * 16 + v \div 4))
                     [] OTHER ->
                          A2B(s, i + 1, 0, 0, 0, Append(out, left * 64 + v))

B64Decode(s) == A2B(s, 1, 0, 0, 0, <<>>)

\* s holds a character that is neither of the base64 alphabet nor the pad.
ForeignChars(s) == \E i \in DOMAIN s : B64Val(s[i]) >= 64 /\ s[i] # "="

VisionContentsWithHistory(prompt, image_data, history) ==
    <<prompt, [mime_type |-> "image/jpeg", data |-> image_data], history>>

\* contents = [request.prompt, {"mime_type": "image/jpeg", "data": image_data}]
VisionContents(prompt, image_data, history) ==
    <<prompt, [mime_type |-> "image/jpeg", data |-> image_data]>>

\* if request.screenshot:
UseVision(q) == Truthy(q.screenshot)

\* ----------------------------------------------------- errors (l.93-164)
\* str(e) of a starlette HTTPException: "<status_code>: <detail>".
HTTPExceptionStr(status, detail) == Decimal(status) \o <<": ">> \o detail

VisionDetail(msg) == <<"Vision model error: ">> \o msg

\* detail=f"An error occurred: {str(e)}"
OuterDetail(msg) == <<"An error occurred: ">> \o msg

NoneNotIterable == <<"'NoneType' object is not iterable">>
NoAttribute(op) == <<"'NoneType' object has no attribute '", op, "'">>
IsInstanceArg2 == <<"isinstance() arg 2 must be a type, a tuple of types, or a union">>
ProviderErrors == {<<"quota exceeded">>}
StoreErrors == {<<"deadline exceeded">>}

ErrorResponse(detail) ==
    [status |-> ServerError, detail |-> detail, response |-> <<>>, chat_id |-> <<>>,
     items |-> <<>>]

\* --------------------------------------------------------------- requests
RECURSIVE Text(_)
\* A text of n characters, "abcabc...".
Text(n) == IF n = 0 THEN <<>>
           ELSE Append(Text(n - 1), CASE n % 3 = 1 -> "a" [] n % 3 = 2 -> "b" [] OTHER -> "c")

\* ChatRequest (l.66-71)
ChatReq(p, u, c, s, h) ==
    [kind |-> "chat", prompt |-> p, user_id |-> u, chat_id |-> c, screenshot |-> s,
     chat_history |-> h]
\* GET /chats/{user_id} and GET /chats/{user_id}/{chat_id}
GetChatsReq(u) ==
    [kind |-> "get_chats", prompt |-> <<>>, user_id |-> u, chat_id |-> None,
     screenshot |-> None, chat_history |-> None]
GetChatMessagesReq(u, c) ==
    [kind |-> "get_chat_messages", prompt |-> <<>>, user_id |-> u, chat_id |-> Some(c),
     screenshot |-> None, chat_history |-> None]

NoRequest == GetChatsReq("")

Msgs == [role : {"user", "assistant", "system", Absent}, content : {"hi", Absent}]
Histories == UNION {[1..n -> Msgs] : n \in 0..MaxHist}
Shots == UNION {[1..n -> ShotChars] : n \in 0..MaxShotLen}
ValidShot == <<"Q", "Q", "Q", "Q">>
OneTurn == <<[role |-> "assistant", content |-> "hi"]>>

\* What a client sends together with the text the provider would answer with.
GetInputs == {<<GetChatsReq("u1"), <<>>>>, <<GetChatMessagesReq("u1", <<"c1">>), <<>>>>}
MultiInputs ==
    {<<ChatReq(Text(1), "u1", c, None, Some(<<>>)), Text(1)>> :
        c \in {None, Some(<<"c1">>)}}
    \cup {<<ChatReq(Text(2), "u1", c, Some(ValidShot), Some(<<>>)), Text(2)>> :
        c \in {None, Some(<<"c1">>)}}
    \cup GetInputs
TruncInputs ==
    {<<ChatReq(Text(n), "u1", Some(<<"c1">>), None, Some(<<>>)), Text(m)>> :
        n \in 0..MaxPromptLen, m \in 0..MaxRespLen}
HistInputs ==
    {<<ChatReq(Text(1), "u1", c, s, h), Text(1)>> :
        c \in {None, Some(<<>>), Some(<<"c1">>)},
        s \in {None, Some(<<>>), Some(ValidShot)},
        h \in {None} \cup {Some(l) : l \in Histories}}
ShotInputs ==
    {<<ChatReq(Text(1), "u1", Some(<<"c1">>), Some(s), Some(OneTurn)), Text(1)>> :
        s \in Shots}
Inputs(w, r) ==
    IF w = "multi" THEN MultiInputs
    ELSE IF r = 1 THEN TruncInputs \cup HistInputs \cup ShotInputs \cup GetInputs
    ELSE {}

\* ------------------------------------------------------------------ state
VARIABLES
    workload,      \* which requests the clients send
    db,            \* the store client handle is set (l.46, l.51)
    model,         \* the text model handle is set (l.57, l.62)
    vision_model,  \* the vision model handle is set (l.58, l.63)
    clock,         \* int(time.time())
    loop,          \* the request whose handler holds the event loop, or NoReq
    pc,            \* each request's position
    req,           \* each request's body
    reply,         \* the text the provider answers a request with, if it answers
    chat_id,       \* chat()'s local chat_id
    ai_response,   \* chat()'s local ai_response
    aiOutcome,     \* how the AI step of a request ended
    aiCalls,       \* the provider calls each request made, in order
    storeCalls,    \* the store calls each request issued, in order
    writes,        \* the store writes of each request that were applied, in order
    resp,          \* each request's HTTP response
    msgs,          \* the messages sub-collections, in commit order
    meta,          \* the chat documents, by <<user_id, chat_id>>
    wclock         \* the store's server timestamp

vars == <<workload, db, model, vision_model, clock, loop, pc, req, reply, chat_id,
          ai_response, aiOutcome, aiCalls, storeCalls, writes, resp, msgs, meta, wclock>>

\* How the AI step of a request ended, with the message of the error raised.
NoOutcome == [kind |-> "none", msg |-> <<>>]
Answered == [kind |-> "ok", msg |-> <<>>]
Failed(msg) == [kind |-> "error", msg |-> msg]

NoResponse ==
    [status |-> 0, detail |-> <<>>, response |-> <<>>, chat_id |-> <<>>, items |-> <<>>]

\* Module initialisation (l.30-63): each construction succeeds or fails.
FirebaseInit(ok) == ok

GeminiInitPartial(ok) == [model |-> TRUE, vision_model |-> ok]

GeminiInit(ok) == [model |-> ok, vision_model |-> ok]

InitWith(w) ==
    /\ workload = w
    /\ \E ok \in BOOLEAN : db = FirebaseInit(ok)
    /\ \E ok \in BOOLEAN : /\ model = GeminiInit(ok).model
                           /\ vision_model = GeminiInit(ok).vision_model
    /\ clock = 0
    /\ loop = NoReq
    /\ pc = [r \in Reqs |-> "idle"]
    /\ req = [r \in Reqs |-> NoRequest]
    /\ reply = [r \in Reqs |-> <<>>]
    /\ chat_id = [r \in Reqs |-> <<>>]
    /\ ai_response = [r \in Reqs |-> <<>>]
    /\ aiOutcome = [r \in Reqs |-> NoOutcome]
    /\ aiCalls = [r \in Reqs |-> <<>>]
    /\ storeCalls = [r \in Reqs |-> <<>>]
    /\ writes = [r \in Reqs |-> <<>>]
    /\ resp = [r \in Reqs |-> NoResponse]
    /\ msgs = <<>>
    /\ meta = <<>>
    /\ wclock = 0

Init == InitWith("multi")
InitOne == InitWith("one")

\* ------------------------------------------------------------------ store
ChatKey(r) == <<req[r].user_id, chat_id[r]>>

\* l.136-141
UserMessage(r) ==
    [user |-> req[r].user_id, chat |-> chat_id[r], content |-> req[r].prompt,
     role |-> "user", timestamp |-> wclock + 1, has_image |-> Truthy(req[r].screenshot),
     by |-> r]
\* l.144-149
AssistantMessage(r) ==
    [user |-> req[r].user_id, chat |-> chat_id[r], content |-> ai_response[r],
     role |-> "assistant", timestamp |-> wclock + 1, has_image |-> FALSE, by |-> r]
\* l.152-156: the fields of the upsert
ChatFields(r) ==
    [updated_at |-> wclock + 1, title |-> Title(req[r].prompt),
     last_message |-> LastMessage(ai_response[r]), by |-> r]

\* chat_ref.set(fields, merge=True): the fields given replace the stored ones,
\* the others stay.
MergeSet(key, fields) ==
    IF key \in DOMAIN meta THEN (key :> (fields @@ meta[key])) @@ meta
    ELSE (key :> fields) @@ meta

WriteOrderMetaFirst == <<"set_meta", "add_user", "add_assistant">>

\* The store writes of chat() in program order (l.136, l.144, l.152).
WriteOrder == <<"add_user", "add_assistant", "set_meta">>

ChatMessages(u, c) == SelectSeq(msgs, LAMBDA m : m.user = u /\ m.chat = c)

RECURSIVE ByUpdatedDesc(_)
\* order_by("updated_at", direction=DESCENDING) over the chat keys K
ByUpdatedDesc(K) ==
    IF K = {} THEN <<>>
    ELSE LET k == CHOOSE x \in K : \A y \in K : meta[y].updated_at <= meta[x].updated_at
         IN <<k>> \o ByUpdatedDesc(K \ {k})

\* l.173-182
ChatList(u) ==
    LET ks == ByUpdatedDesc({k \in DOMAIN meta : k[1] = u}) IN
    [i \in 1..Len(ks) |->
        [id |-> ks[i][2], title |-> meta[ks[i]].title,
         last_message |-> meta[ks[i]].last_message,
         updated_at |-> meta[ks[i]].updated_at]]

\* ------------------------------------------------------------- responses
\* ChatResponse(response=ai_response, chat_id=chat_id) (l.161)
ChatResponse(text, cid) ==
    [status |-> Success, detail |-> <<>>, response |-> text, chat_id |-> cid,
     items |-> <<>>]
ListResponse(items) ==
    [status |-> Success, detail |-> <<>>, response |-> <<>>, chat_id |-> <<>>,
     items |-> items]

\* The handler returns or raises: the response is sent and the event loop is free.
Finish(r, response, state) ==
    /\ resp' = [resp EXCEPT ![r] = response]
    /\ pc' = [pc EXCEPT ![r] = state]
    /\ loop' = NoReq

\* The handler blocks in an external call, holding the event loop.
Block(r, state) ==
    /\ pc' = [pc EXCEPT ![r] = state]
    /\ loop' = r
    /\ UNCHANGED resp

\* if not model and not vision_model (l.92)
ModelsUninitialised == ~model /\ ~vision_model

\* if not db (l.168, l.188)
DbUninitialised == ~db

\* chat = model.start_chat(history=history); chat.send_message(request.prompt)
TextCalls(prompt, history) ==
    <<[model |-> "text", op |-> "start_chat", args |-> history],
      [model |-> "text", op |-> "send_message", args |-> prompt]>>

VisionCalls(prompt, image_data, history) ==
    <<[model |-> "vision", op |-> "generate_content",
       args |-> VisionContents(prompt, image_data, history)]>>

\* --------------------------------------------------------------- actions
\* A client sends a request; the server has not started its handler yet.
Send(r) ==
    /\ pc[r] = "idle"
    /\ \E in \in Inputs(workload, r) :
          /\ req' = [req EXCEPT ![r] = in[1]]
          /\ reply' = [reply EXCEPT ![r] = in[2]]
    /\ pc' = [pc EXCEPT ![r] = "Received"]
    /\ UNCHANGED <<workload, db, model, vision_model, clock, loop, chat_id, ai_response,
                   aiOutcome, aiCalls, storeCalls, writes, resp, msgs, meta, wclock>>

\* chat() from its start to its first call into the provider SDK: the vision call
\* (l.115) or, on the text path, model.start_chat (l.122).
ChatStart(r) ==
    /\ pc[r] = "Received"
    /\ req[r].kind = "chat"
    /\ loop = NoReq
    /\ LET q == req[r] IN
       IF ModelsUninitialised
       THEN /\ Finish(r, ErrorResponse(<<"AI models not initialized">>), "Errored")
            /\ UNCHANGED <<chat_id, aiCalls, aiOutcome>>
       ELSE /\ chat_id' = [chat_id EXCEPT ![r] = ChatIdFor(q.chat_id, clock)]
            /\ IF IsNone(q.chat_history)
               THEN /\ Finish(r, ErrorResponse(OuterDetail(NoneNotIterable)), "Errored")
                    /\ UNCHANGED <<aiCalls, aiOutcome>>
               ELSE LET history == BuildHistory(Get(q.chat_history)) IN
                    IF UseVision(q)
                    THEN LET d == B64Decode(SplitPayload(Get(q.screenshot))) IN
                         IF ~d.ok
                         THEN /\ Finish(r, ErrorResponse(OuterDetail(HTTPExceptionStr(
                                     ServerError, VisionDetail(d.err)))), "Errored")
                              /\ aiOutcome' = [aiOutcome EXCEPT ![r] = Failed(d.err)]
                              /\ UNCHANGED aiCalls
                         ELSE /\ aiCalls' = [aiCalls EXCEPT ![r] =
                                     VisionCalls(q.prompt, d.data, history)]
                              /\ IF vision_model
                                 THEN Block(r, "AICall") /\ UNCHANGED aiOutcome
                                 ELSE /\ Finish(r, ErrorResponse(OuterDetail(
                                            HTTPExceptionStr(ServerError, VisionDetail(
                                                NoAttribute("generate_content"))))),
                                            "Errored")
                                      /\ aiOutcome' = [aiOutcome EXCEPT ![r] =
                                             Failed(NoAttribute("generate_content"))]
                    ELSE IF model
                         THEN /\ aiCalls' = [aiCalls EXCEPT ![r] =
                                     SubSeq(TextCalls(q.prompt, history), 1, 1)]
                              /\ Block(r, "StartChat")
                              /\ UNCHANGED aiOutcome
                         ELSE /\ aiCalls' = [aiCalls EXCEPT ![r] =
                                     SubSeq(TextCalls(q.prompt, history), 1, 1)]
                              /\ Finish(r, ErrorResponse(OuterDetail(
                                     NoAttribute("start_chat"))), "Errored")
                              /\ aiOutcome' = [aiOutcome EXCEPT ![r] =
                                     Failed(NoAttribute("start_chat"))]
    /\ UNCHANGED <<workload, db, model, vision_model, clock, req, reply, ai_response,
                   storeCalls, writes, msgs, meta, wclock>>

\* model.start_chat returns the chat session; chat() sends the prompt (l.123).
StartChatReturns(r) ==
    /\ pc[r] = "StartChat"
    /\ aiCalls' = [aiCalls EXCEPT ![r] =
           TextCalls(req[r].prompt, BuildHistory(Get(req[r].chat_history)))]
    /\ pc' = [pc EXCEPT ![r] = "AICall"]
    /\ UNCHANGED <<workload, db, model, vision_model, clock, loop, req, reply, chat_id,
                   ai_response, aiOutcome, storeCalls, writes, resp, msgs, meta, wclock>>

\* model.start_chat raises: the prompt is never sent, and the outer handler turns
\* the error into a server error (l.163-164).
StartChatFails(r) ==
    /\ pc[r] = "StartChat"
    /\ \E msg \in ProviderErrors :
          /\ Finish(r, ErrorResponse(OuterDetail(msg)), "Errored")
          /\ aiOutcome' = [aiOutcome EXCEPT ![r] = Failed(msg)]
    /\ UNCHANGED <<workload, db, model, vision_model, clock, req, reply, chat_id,
                   ai_response, aiCalls, storeCalls, writes, msgs, meta, wclock>>

\* The provider call returns text (l.116, l.124); chat() runs on to its first store
\* call (l.127-136) or, with no store client, to its return (l.161).
AIReturns(r) ==
    /\ pc[r] = "AICall"
    /\ ai_response' = [ai_response EXCEPT ![r] = reply[r]]
    /\ aiOutcome' = [aiOutcome EXCEPT ![r] = Answered]
    /\ IF db
       THEN /\ storeCalls' = [storeCalls EXCEPT ![r] = <<WriteOrder[1]>>]
            /\ Block(r, "StoreCall")
       ELSE /\ Finish(r, ChatResponse(reply[r], chat_id[r]), "Responded")
            /\ UNCHANGED storeCalls
    /\ UNCHANGED <<workload, db, model, vision_model, clock, req, reply, chat_id,
                   aiCalls, writes, msgs, meta, wclock>>

\* The provider call (generate_content, send_message) raises: on the vision path the inner handler wraps the error
\* (l.117-119) and the outer one wraps it again (l.163-164); on the text path only
\* the outer one does.
AIFails(r) ==
    /\ pc[r] = "AICall"
    /\ \E msg \in ProviderErrors :
          /\ Finish(r, ErrorResponse(OuterDetail(
                          IF UseVision(req[r])
                          THEN HTTPExceptionStr(ServerError, VisionDetail(msg))
                          ELSE msg)), "Errored")
          /\ aiOutcome' = [aiOutcome EXCEPT ![r] = Failed(msg)]
    /\ UNCHANGED <<workload, db, model, vision_model, clock, req, reply, chat_id,
                   ai_response, aiCalls, storeCalls, writes, msgs, meta, wclock>>

\* The effect of a store write of chat() on the store.
Apply(op, r) ==
    CASE op = "add_user" ->
            msgs' = Append(msgs, UserMessage(r)) /\ UNCHANGED meta
      [] op = "add_assistant" ->
            msgs' = Append(msgs, AssistantMessage(r)) /\ UNCHANGED meta
      [] OTHER ->
            meta' = MergeSet(ChatKey(r), ChatFields(r)) /\ UNCHANGED msgs

\* The store write in flight returns: it is applied, and chat() issues the next
\* write (l.144, l.152) or returns (l.161).
StoreWriteReturns(r) ==
    /\ pc[r] = "StoreCall"
    /\ LET k == Len(storeCalls[r]) IN
       /\ Apply(storeCalls[r][k], r)
       /\ wclock' = wclock + 1
       /\ writes' = [writes EXCEPT ![r] = Append(@, storeCalls[r][k])]
       /\ IF k < Len(WriteOrder)
          THEN /\ storeCalls' = [storeCalls EXCEPT ![r] = Append(@, WriteOrder[k + 1])]
               /\ UNCHANGED <<pc, loop, resp>>
          ELSE /\ Finish(r, ChatResponse(ai_response[r], chat_id[r]), "Responded")
               /\ UNCHANGED storeCalls
    /\ UNCHANGED <<workload, db, model, vision_model, clock, req, reply, chat_id,
                   ai_response, aiOutcome, aiCalls>>

StoreWriteFailsPropagates(r) ==
    /\ pc[r] = "StoreCall"
    /\ \E msg \in StoreErrors : Finish(r, ErrorResponse(OuterDetail(msg)), "Errored")
    /\ UNCHANGED <<workload, db, model, vision_model, clock, req, reply, chat_id,
                   ai_response, aiOutcome, aiCalls, storeCalls, writes, msgs, meta, wclock>>

\* The store write in flight raises: the error is printed and chat() returns its
\* response (l.157-161).
StoreWriteFails(r) ==
    /\ pc[r] = "StoreCall"
    /\ Finish(r, ChatResponse(ai_response[r], chat_id[r]), "Responded")
    /\ UNCHANGED <<workload, db, model, vision_model, clock, req, reply, chat_id,
                   ai_response, aiOutcome, aiCalls, storeCalls, writes, msgs, meta, wclock>>

\* get_chats() and get_chat_messages() from their start to the store query
\* (l.167-174, l.187-194).
GetStart(r) ==
    /\ pc[r] = "Received"
    /\ req[r].kind \in {"get_chats", "get_chat_messages"}
    /\ loop = NoReq
    /\ IF DbUninitialised
       THEN /\ Finish(r, ErrorResponse(<<"Database not initialized">>), "Errored")
            /\ UNCHANGED storeCalls
       ELSE /\ storeCalls' = [storeCalls EXCEPT ![r] = <<"stream">>]
            /\ Block(r, "Query")
    /\ UNCHANGED <<workload, db, model, vision_model, clock, req, reply, chat_id,
                   ai_response, aiOutcome, aiCalls, writes, msgs, meta, wclock>>

\* get_chats(): the query returns (l.176-182).
GetChatsReturns(r) ==
    /\ pc[r] = "Query"
    /\ req[r].kind = "get_chats"
    /\ Finish(r, ListResponse(ChatList(req[r].user_id)), "Responded")
    /\ UNCHANGED <<workload, db, model, vision_model, clock, req, reply, chat_id,
                   ai_response, aiOutcome, aiCalls, storeCalls, writes, msgs, meta, wclock>>

\* get_chat_messages(): the query returns (l.196-211).  A message's stored
\* timestamp is a datetime; isinstance(ts, firestore.SERVER_TIMESTAMP) is given an
\* instance where a type is needed and raises TypeError, which l.212-213 turn into
\* a server error.
GetChatMessagesReturns(r) ==
    /\ pc[r] = "Query"
    /\ req[r].kind = "get_chat_messages"
    /\ IF ChatMessages(req[r].user_id, Get(req[r].chat_id)) = <<>>
       THEN Finish(r, ListResponse(<<>>), "Responded")
       ELSE Finish(r, ErrorResponse(OuterDetail(IsInstanceArg2)), "Errored")
    /\ UNCHANGED <<workload, db, model, vision_model, clock, req, reply, chat_id,
                   ai_response, aiOutcome, aiCalls, storeCalls, writes, msgs, meta, wclock>>

\* The store query raises (l.183-184, l.212-213).
QueryFails(r) ==
    /\ pc[r] = "Query"
    /\ \E msg \in StoreErrors : Finish(r, ErrorResponse(OuterDetail(msg)), "Errored")
    /\ UNCHANGED <<workload, db, model, vision_model, clock, req, reply, chat_id,
                   ai_response, aiOutcome, aiCalls, storeCalls, writes, msgs, meta, wclock>>

\* A second of wall-clock time passes.
Tick ==
    /\ clock < MaxClock
    /\ clock' = clock + 1
    /\ UNCHANGED <<workload, db, model, vision_model, loop, pc, req, reply, chat_id,
                   ai_response, aiOutcome, aiCalls, storeCalls, writes, resp, msgs, meta,
                   wclock>>

\* A step of the handler of r.
HandlerStep(r) ==
    \/ ChatStart(r)
    \/ StartChatReturns(r)
    \/ StartChatFails(r)
    \/ AIReturns(r)
    \/ AIFails(r)
    \/ StoreWriteReturns(r)
    \/ StoreWriteFails(r)
    \/ GetStart(r)
    \/ GetChatsReturns(r)
    \/ GetChatMessagesReturns(r)
    \/ QueryFails(r)

Next ==
    \/ \E r \in Reqs : Send(r)
    \/ \E r \in Reqs : HandlerStep(r)
    \/ Tick

Spec == Init /\ [][Next]_vars
SpecOne == InitOne /\ [][Next]_vars

\* ------------------------------------------------------------- properties
Done(r) == pc[r] \in {"Responded", "Errored"}
IsChat(r) == pc[r] # "idle" /\ req[r].kind = "chat"
IsGet(r) == pc[r] # "idle" /\ req[r].kind \in {"get_chats", "get_chat_messages"}
Waiting(r) == pc[r] \in {"StartChat", "AICall", "StoreCall", "Query"}
IsPrefix(s, t) == Len(s) <= Len(t) /\ SubSeq(t, 1, Len(s)) = s

\* C1: a POST /chat request whose AI invocation succeeded ends with the success
\* body {response = the provider's text, chat_id = the request's chat id}, whether
\* the store client is unset or a store write failed; it never ends in the error
\* outcome.
C1_BestEffortPersistence ==
    \A r \in Reqs :
        IsChat(r) /\ aiOutcome[r].kind = "ok" /\ Done(r) =>
            /\ pc[r] = "Responded"
            /\ resp[r].status = Success
            /\ resp[r].response = reply[r]
            /\ resp[r].chat_id = chat_id[r]
            /\ resp[r].detail = <<>>

\* A request answered after one of its store writes failed.
C1_Witness ==
    \E r \in Reqs :
        /\ IsChat(r) /\ pc[r] = "Responded"
        /\ Len(writes[r]) < Len(storeCalls[r])

\* C2: the returned chat_id is the supplied one when one is supplied, and two
\* requests without chat_id are answered with distinct generated chat_id values.
C2_ChatIdUnique ==
    \A r1 \in Reqs :
        IsChat(r1) /\ pc[r1] = "Responded" =>
            /\ ~IsNone(req[r1].chat_id) => resp[r1].chat_id = Get(req[r1].chat_id)
            /\ \A r2 \in Reqs \ {r1} :
                  /\ IsChat(r2) /\ pc[r2] = "Responded"
                  /\ IsNone(req[r1].chat_id) /\ IsNone(req[r2].chat_id)
                  => resp[r1].chat_id # resp[r2].chat_id

\* No request is between its first store write and its metadata upsert for the chat.
Quiet(key) == \A r \in Reqs : ~(pc[r] = "StoreCall" /\ ChatKey(r) = key)

\* C3: whenever no request is in the middle of its store writes for a chat, the
\* chat's title and last_message are the truncated prompt and the truncated AI
\* response of the exchange whose messages were appended to the chat last.
C3_DisplayFieldsCurrent ==
    \A i \in DOMAIN msgs :
        LET key == <<msgs[i].user, msgs[i].chat>>
            all == ChatMessages(key[1], key[2])
            last == all[Len(all)].by
        IN  Quiet(key) =>
               /\ key \in DOMAIN meta
               /\ meta[key].title = Title(req[last].prompt)
               /\ meta[key].last_message = LastMessage(reply[last])

\* C4: a request that carries a screenshot makes no provider call but one vision
\* call, whose contents are the prompt and the decoded image and nothing else;
\* its chat_history reaches no provider call.
C4_VisionOnly ==
    \A r \in Reqs :
        IsChat(r) /\ Truthy(req[r].screenshot) =>
            /\ Len(aiCalls[r]) <= 1
            /\ \A i \in DOMAIN aiCalls[r] :
                  LET e == aiCalls[r][i] IN
                  /\ e.model = "vision"
                  /\ e.op = "generate_content"
                  /\ Len(e.args) = 2
                  /\ e.args[1] = req[r].prompt
                  /\ DOMAIN e.args[2] = {"mime_type", "data"}
                  /\ e.args[2].data \in Seq(0..255)

\* A request with a screenshot and a non-empty chat_history whose vision call
\* was answered.
C4_Witness ==
    \E r \in Reqs :
        /\ IsChat(r) /\ Truthy(req[r].screenshot)
        /\ ~IsNone(req[r].chat_history) /\ Len(Get(req[r].chat_history)) > 0
        /\ Len(aiCalls[r]) = 1
        /\ pc[r] = "Responded"

\* C5: a request without a screenshot makes text calls only: the history
\* submitted has the length and the order of chat_history, entry i carries the
\* content of chat_history[i], with role user when chat_history[i].role is user
\* and the model role otherwise, and the prompt is sent after the history, as
\* the second call and only once the first was made.
C5_TextReplaysHistory ==
    \A r \in Reqs :
        IsChat(r) /\ ~Truthy(req[r].screenshot) /\ aiCalls[r] # <<>> =>
            LET h == Get(req[r].chat_history)
                sent == aiCalls[r][1].args
            IN  /\ Len(aiCalls[r]) <= 2
                /\ \A i \in DOMAIN aiCalls[r] : aiCalls[r][i].model = "text"
                /\ aiCalls[r][1].op = "start_chat"
                /\ Len(sent) = Len(h)
                /\ \A i \in DOMAIN h :
                      /\ sent[i].parts =
                            <<IF h[i].content = Absent THEN "" ELSE h[i].content>>
                      /\ sent[i].role = (IF h[i].role = "user" THEN "user" ELSE "model")
                /\ Len(aiCalls[r]) = 2 =>
                      /\ aiCalls[r][2].op = "send_message"
                      /\ aiCalls[r][2].args = req[r].prompt
                /\ aiOutcome[r].kind = "ok" => Len(aiCalls[r]) = 2

\* A request without a screenshot whose history of two turns or more, a user turn
\* after a turn of another role, was replayed and answered.
C5_Witness ==
    \E r \in Reqs :
        /\ IsChat(r) /\ ~Truthy(req[r].screenshot)
        /\ ~IsNone(req[r].chat_history)
        /\ LET h == Get(req[r].chat_history) IN
              Len(h) >= 2 /\ h[1].role = "system" /\ h[2].role = "user"
        /\ Len(aiCalls[r]) = 2
        /\ pc[r] = "Responded"

\* The text s cut to n characters as the chat document stores it.
CutTo(stored, s, n) ==
    /\ Len(s) <= n => stored = s
    /\ Len(s) > n =>
          /\ Len(stored) = n + 3
          /\ \A i \in 1..n : stored[i] = s[i]
          /\ \A i \in (n + 1)..(n + 3) : stored[i] = "."

\* C6: the stored title is the prompt when it has at most 50 characters and else
\* its first 50 characters followed by "..."; the stored last_message follows the
\* same rule against the AI response with the limit 100.
C6_Truncation ==
    \A key \in DOMAIN meta :
        LET r == meta[key].by IN
        /\ CutTo(meta[key].title, req[r].prompt, TitleLimit)
        /\ CutTo(meta[key].last_message, reply[r], LastMessageLimit)

\* A chat stored from a prompt of 51 characters and a response of 101.
C6_Witness ==
    \E key \in DOMAIN meta :
        /\ Len(req[meta[key].by].prompt) = TitleLimit + 1
        /\ Len(reply[meta[key].by]) = LastMessageLimit + 1

\* C7: no handler uses an unset client.  With the store client unset the two GET
\* handlers end in a server error that says so and no handler issues a store
\* call; with the AI clients unset POST /chat ends in an error before any provider
\* call; and every provider call is made on a model handle that is set.
C7_NoUnsetClientUse ==
    \A r \in Reqs :
        /\ ~db => storeCalls[r] = <<>>
        /\ ~db /\ IsGet(r) /\ Done(r) =>
              /\ pc[r] = "Errored"
              /\ resp[r].status = ServerError
              /\ resp[r].detail = <<"Database not initialized">>
        /\ ~model /\ ~vision_model /\ IsChat(r) /\ Done(r) =>
              /\ pc[r] = "Errored"
              /\ resp[r].status = ServerError
              /\ aiCalls[r] = <<>>
        /\ \A i \in DOMAIN aiCalls[r] :
              /\ aiCalls[r][i].model = "text" => model
              /\ aiCalls[r][i].model = "vision" => vision_model

\* Neither client was constructed: a GET and a POST /chat were both refused.
C7_Witness ==
    /\ ~db /\ ~model /\ ~vision_model
    /\ \E r1, r2 \in Reqs :
          /\ IsGet(r1) /\ pc[r1] = "Errored"
          /\ IsChat(r2) /\ pc[r2] = "Errored"

\* The AI step of r was reached with a screenshot whose payload is malformed.
MalformedScreenshot(r) ==
    /\ Truthy(req[r].screenshot)
    /\ ~IsNone(req[r].chat_history)
    /\ ForeignChars(SplitPayload(Get(req[r].screenshot)))

\* C8: a request whose AI step failed (malformed base64 in the screenshot, or a
\* provider error) ends with status 500 and a detail that includes the error's
\* message, never with a success response.
C8_AIFailureIsServerError ==
    \A r \in Reqs :
        /\ IsChat(r) /\ Done(r) /\ aiOutcome[r].kind = "error" =>
              /\ pc[r] = "Errored"
              /\ resp[r].status = ServerError
              /\ resp[r].response = <<>>
              /\ Includes(resp[r].detail, aiOutcome[r].msg)
        /\ IsChat(r) /\ pc[r] = "Responded" => ~MalformedScreenshot(r)

\* The part of C8 that rests on an error being raised.
C8_RaisedErrorIsServerError ==
    \A r \in Reqs :
        IsChat(r) /\ Done(r) /\ aiOutcome[r].kind = "error" =>
            /\ pc[r] = "Errored"
            /\ resp[r].status = ServerError
            /\ resp[r].response = <<>>
            /\ Includes(resp[r].detail, aiOutcome[r].msg)

\* C9: the store writes of a request happen in the order user message, assistant
\* message, chat metadata, each attempted only after the one before it succeeded;
\* so a chat's metadata written by a request exists only if the request's user
\* message and then its assistant message were written to that chat.
C9_WriteOrder ==
    /\ \A r \in Reqs :
          IsChat(r) =>
             /\ IsPrefix(storeCalls[r], <<"add_user", "add_assistant", "set_meta">>)
             /\ IsPrefix(writes[r], storeCalls[r])
             /\ Len(storeCalls[r]) <= Len(writes[r]) + 1
    /\ \A key \in DOMAIN meta :
          LET all == ChatMessages(key[1], key[2]) IN
          \E i, j \in DOMAIN all :
              /\ i < j
              /\ all[i].by = meta[key].by /\ all[i].role = "user"
              /\ all[j].by = meta[key].by /\ all[j].role = "assistant"

\* A request answered after its two messages were written and its metadata
\* upsert failed, on a chat another request had written in full.
C9_Witness ==
    \E r \in Reqs :
        /\ IsChat(r) /\ pc[r] = "Responded"
        /\ Len(writes[r]) = 2 /\ Len(storeCalls[r]) = 3
        /\ ChatKey(r) \in DOMAIN meta

\* C10: while a request waits on the provider or on the store, every other
\* request the server has received can take a step of its own.
C10_NoStall ==
    \A r1 \in Reqs : \A r2 \in Reqs \ {r1} :
        Waiting(r1) /\ pc[r2] = "Received" => ENABLED HandlerStep(r2)
====
